---- MODULE Spec2Model ----
(***************************************************************************)
(* A model of the aoc-framework task execution engine:                     *)
(*   - the comparator   AocTask::solutions_match        (src/src/task.rs)  *)
(*   - fixture discovery AocTask::example_paths         (src/src/task.rs)  *)
(*   - the phase state store (.solved_phase_<N> markers) (src/src/task.rs) *)
(*   - the orchestrator check_solved_tasks              (src/src/lib.rs)   *)
(* A Rust String is a sequence of one-character strings; a Solution        *)
(* (Vec<String>) is a sequence of such sequences.                          *)
(***************************************************************************)
EXTENDS Integers, Sequences, FiniteSets, TLC

VARIABLES
    \* ---- check_solved_tasks (lib.rs) ----
    num_tasks,        \* tasks.len()
    phases_per_task,  \* the phases_per_task argument
    markers,          \* the <<task, phase>> whose .solved_phase_<phase> file exists
    pc,               \* where the run stands: idle, discover, example, solve, check, ask
    task,             \* index (from 1) of the task of the outer loop
    phase,            \* the phase of the inner loop
    examples,         \* the fixture pairs of the current phase not yet run
    example_result,   \* the AocTestResult of the fixture run last, or NoTestResult
    result,           \* what the run returned: none, OkTrue, OkFalse or an AocError
    \* ---- history of the current run ----
    last,             \* the last step of the run and what the environment gave it
    discovered,       \* <<task, phase>> whose fixtures were listed in this run
    fixtures,         \* of the phase under way: how many listed, run, any failed
    solved_real,      \* <<task, phase>> whose real input was solved in this run
    asked,            \* <<task, phase>> the oracle was asked about in this run
    written,          \* <<task, phase>> whose marker was written in this run
    \* ---- solutions_match called on its own ----
    s1, s2,           \* the two solutions
    matched,          \* <<solutions_match(s1, s2)>> once called, <<>> before
    matched_swapped,  \* <<solutions_match(s2, s1)>> once called, <<>> before
    \* ---- example_paths called on its own ----
    dir,              \* the task directory: is it listable, and its entries
    paths_result,     \* <<what example_paths returned>> once called, <<>> before
    \* ---- methods of AocTask called on their own ----
    store_writable,   \* whether File::create succeeds in the task directories
    input_file,       \* the task's `in` file: does it open, and its text
    example_input,    \* the input file of a fixture
    expected_file,    \* the expected-output file of a fixture
    solver,           \* which implementation of AocTask::solution the task has
    solve_result,     \* <<what solve_from_input_path returned>>, <<>> before
    test_result       \* <<what run_example_test returned>>, <<>> before

vars == <<num_tasks, phases_per_task, markers, pc, task, phase, examples,
          example_result, result, last, discovered, fixtures, solved_real, asked,
          written,
          s1, s2, matched, matched_swapped, dir, paths_result,
          store_writable, input_file, example_input, expected_file, solver, solve_result,
          test_result>>

orch_vars == <<num_tasks, phases_per_task, markers, pc, task, phase, examples,
               example_result, result, last, discovered, fixtures, solved_real, asked,
          written>>

match_vars == <<s1, s2, matched, matched_swapped>>

paths_vars == <<dir, paths_result>>

call_vars == <<store_writable, input_file, example_input, expected_file, solver, solve_result,
               test_result>>

(***************************************************************************)
(* Bounds                                                                  *)
(***************************************************************************)
MaxTasks == 2
MaxPhases == 2
MaxLines == 2

(***************************************************************************)
(* Strings                                                                 *)
(***************************************************************************)
Min(a, b) == IF a <= b THEN a ELSE b

\* char::is_whitespace, on the characters the model uses
IsWhitespace(c) == c \in {" ", "\t", "\n", "\r"}

RECURSIVE trim_start(_)
trim_start(s) ==
    IF s # <<>> /\ IsWhitespace(Head(s)) THEN trim_start(Tail(s)) ELSE s

RECURSIVE trim_end(_)
trim_end(s) ==
    IF s # <<>> /\ IsWhitespace(s[Len(s)])
    THEN trim_end(SubSeq(s, 1, Len(s) - 1))
    ELSE s

\* str::trim
trim(s) == trim_end(trim_start(s))

\* str::contains
contains(s, pat) ==
    \E i \in 0..(Len(s) - Len(pat)) : SubSeq(s, i + 1, i + Len(pat)) = pat

\* str::ends_with
ends_with(s, suffix) ==
    /\ Len(s) >= Len(suffix)
    /\ SubSeq(s, Len(s) - Len(suffix) + 1, Len(s)) = suffix

\* String::replace_range(start.., with): start is a 0-based offset
replace_range(s, start, with) == SubSeq(s, 1, start) \o with

(***************************************************************************)
(* Comparator: AocTask::solutions_match                                    *)
(***************************************************************************)
\* s1.iter().zip(s2.iter()).filter(|(a, b)| a.trim() == b.trim()).count()
zip_filter_count(a, b) ==
    Cardinality({i \in 1..Min(Len(a), Len(b)) : trim(a[i]) = trim(b[i])})

solutions_match_noLen2(a, b) ==
    LET matches == zip_filter_count(a, b) IN matches = Len(a)

solutions_match_noTrim(a, b) ==
    LET matches == Cardinality({i \in 1..Min(Len(a), Len(b)) : a[i] = b[i]})
    IN  matches = Len(a) /\ matches = Len(b)

solutions_match(a, b) ==
    LET matches == zip_filter_count(a, b)
    IN  matches = Len(a) /\ matches = Len(b)

\* The lines the solutions are built from
SampleLines ==
    { <<>>, <<" ">>, <<"a">>, <<" ", "a", "\t">>, <<"b">>, <<"a", " ", "b">> }

SeqsUpTo(S, n) == UNION {[1..k -> S] : k \in 0..n}

Solutions == SeqsUpTo(SampleLines, MaxLines)

(***************************************************************************)
(* Fixture discovery: AocTask::example_paths                               *)
(***************************************************************************)
S_example == <<"e", "x", "a", "m", "p", "l", "e">>
S_in == <<"_", "i", "n">>
S_out == <<"_", "o", "u", "t">>
S_test == <<"t", "e", "s", "t">>

N_example_a_in == S_example \o <<"_", "a">> \o S_in
N_example_a_out == S_example \o <<"_", "a">> \o S_out
N_example_b_in == S_example \o <<"_", "b">> \o S_in
N_example_b_out == S_example \o <<"_", "b">> \o S_out
N_test_in == S_test \o S_in
N_test_out == S_test \o S_out
N_in == <<"i", "n">>

FileNames ==
    { N_example_a_in, N_example_a_out, N_example_b_in, N_example_b_out,
      N_test_in, N_test_out, N_in }

FileKinds == {"absent", "file", "dir"}

\* Path::is_file on directory.join(name)
is_file(entries, name) == name \in DOMAIN entries /\ entries[name] = "file"

\* read_dir()...collect(): the names of the entries of the directory
task_files(entries) == {n \in DOMAIN entries : entries[n] # "absent"}

example_files(entries) == {n \in task_files(entries) : contains(n, S_example)}

example_inputs(entries) == {n \in example_files(entries) : ends_with(n, S_in)}

example_outputs(entries) ==
    {n \in example_files(entries) : ~ends_with(n, S_in) /\ ends_with(n, S_out)}

output_filename(input_filename) ==
    replace_range(input_filename, Len(input_filename) - 3, S_out)

pair_is_kept_noOutputCheck(entries, input_filename) ==
    is_file(entries, input_filename)

pair_is_kept(entries, input_filename) ==
    /\ is_file(entries, output_filename(input_filename))
    /\ is_file(entries, input_filename)

example_pairs(entries) ==
    { <<n, output_filename(n)>> :
        n \in {m \in example_inputs(entries) : pair_is_kept(entries, m)} }

\* The orders a HashMap may yield the pairs in
Orderings(S) ==
    {q \in [1..Cardinality(S) -> S] : \A i, j \in DOMAIN q : q[i] = q[j] => i = j}

\* Every value example_paths may return for the directory
example_paths(d) ==
    IF ~d.readable
    THEN {[ok |-> FALSE, err |-> "MissingExample", pairs |-> <<>>]}
    ELSE {[ok |-> TRUE, err |-> "none", pairs |-> q] : q \in Orderings(example_pairs(d.entries))}

(***************************************************************************)
(* Values of the variables a specification does not use                    *)
(***************************************************************************)
NoTestResult == [passed |-> TRUE, output |-> <<>>, expected_output |-> <<>>, set |-> FALSE]

NoFixtures == [listed |-> 0, run |-> 0, failed |-> FALSE]

NoStep == [kind |-> "none", task |-> 0, phase |-> 0, env |-> "none", marked |-> FALSE]

EmptyDir == [readable |-> TRUE, entries |-> [n \in FileNames |-> "absent"]]

OrchIdle ==
    /\ num_tasks = 0
    /\ phases_per_task = 0
    /\ markers = {}
    /\ pc = "idle"
    /\ task = 0
    /\ phase = 0
    /\ examples = <<>>
    /\ example_result = NoTestResult
    /\ result = "none"
    /\ last = NoStep
    /\ discovered = {}
    /\ fixtures = NoFixtures
    /\ solved_real = {}
    /\ asked = {}
    /\ written = {}

MatchIdle ==
    /\ s1 = <<>>
    /\ s2 = <<>>
    /\ matched = <<>>
    /\ matched_swapped = <<>>

PathsIdle ==
    /\ dir = EmptyDir
    /\ paths_result = <<>>

NoFile == [opens |-> TRUE, text |-> <<>>]

SolveIdle ==
    /\ input_file = NoFile
    /\ example_input = NoFile
    /\ expected_file = NoFile
    /\ solver = "sum"
    /\ solve_result = <<>>
    /\ test_result = <<>>

CallsIdle ==
    /\ store_writable = TRUE
    /\ SolveIdle

(***************************************************************************)
(* solutions_match called on two solutions                                 *)
(***************************************************************************)
InitMatch ==
    /\ OrchIdle
    /\ PathsIdle
    /\ CallsIdle
    /\ s1 \in Solutions
    /\ s2 \in Solutions
    /\ matched = <<>>
    /\ matched_swapped = <<>>

CallSolutionsMatch ==
    /\ matched = <<>>
    /\ matched' = <<solutions_match(s1, s2)>>
    /\ UNCHANGED <<s1, s2, matched_swapped>>
    /\ UNCHANGED orch_vars
    /\ UNCHANGED paths_vars
    /\ UNCHANGED call_vars

CallSolutionsMatchSwapped ==
    /\ matched_swapped = <<>>
    /\ matched_swapped' = <<solutions_match(s2, s1)>>
    /\ UNCHANGED <<s1, s2, matched>>
    /\ UNCHANGED orch_vars
    /\ UNCHANGED paths_vars
    /\ UNCHANGED call_vars

NextMatch == CallSolutionsMatch \/ CallSolutionsMatchSwapped

SpecMatch == InitMatch /\ [][NextMatch]_vars

(***************************************************************************)
(* example_paths called on a directory                                     *)
(***************************************************************************)
InitPaths ==
    /\ OrchIdle
    /\ MatchIdle
    /\ CallsIdle
    /\ dir \in [readable : BOOLEAN, entries : [FileNames -> FileKinds]]
    /\ paths_result = <<>>

\* How many times example_paths is called on the directory
MaxCalls == 2

CallExamplePaths ==
    /\ Len(paths_result) < MaxCalls
    /\ \E r \in example_paths(dir) : paths_result' = Append(paths_result, r)
    /\ UNCHANGED dir
    /\ UNCHANGED orch_vars
    /\ UNCHANGED match_vars
    /\ UNCHANGED call_vars

NextPaths == CallExamplePaths

SpecPaths == InitPaths /\ [][NextPaths]_vars

(***************************************************************************)
(* Results: Result<T, AocError>                                            *)
(***************************************************************************)
Ok(v) == [ok |-> TRUE, err |-> "none", val |-> v]

Err(e) == [ok |-> FALSE, err |-> e, val |-> <<>>]

(***************************************************************************)
(* Phase state store                                                       *)
(***************************************************************************)
phase_is_solved_always(m, t, p) == TRUE

phase_is_solved(m, t, p) == <<t, p>> \in m

\* create_ok: whether File::create succeeds
mark_phase_as_solved_overwrites(m, t, p, create_ok) ==
    IF create_ok
    THEN [ok |-> TRUE, err |-> "none", markers |-> {<<t, p>>}]
    ELSE [ok |-> FALSE, err |-> "MarkSolvedError", markers |-> m]

mark_phase_as_solved_createNew(m, t, p, create_ok) ==
    IF create_ok /\ <<t, p>> \notin m
    THEN [ok |-> TRUE, err |-> "none", markers |-> m \cup {<<t, p>>}]
    ELSE [ok |-> FALSE, err |-> "MarkSolvedError", markers |-> m]

mark_phase_as_solved(m, t, p, create_ok) ==
    IF create_ok
    THEN [ok |-> TRUE, err |-> "none", markers |-> m \cup {<<t, p>>}]
    ELSE [ok |-> FALSE, err |-> "MarkSolvedError", markers |-> m]

(***************************************************************************)
(* Line source and solver                                                  *)
(***************************************************************************)
\* What reading a file gives: it opens and reads, it does not open, or a line
\* of it cannot be read
IoOutcomes == {"ok", "open_fails", "read_fails"}

get_file_output(io, content) ==
    IF io = "ok" THEN Ok(content) ELSE Err("IOReadError")

\* solver_ok: whether AocTask::solution returns Ok; output: what it returns then
solve_from_input_path_solverFirst(io, solver_ok, output) ==
    IF io = "open_fails" THEN Err("IOReadError")
    ELSE IF ~solver_ok THEN Err("SolutionExecutionError")
    ELSE IF io = "read_fails" THEN Err("IOReadError")
    ELSE Ok(output)

solve_from_input_path(io, solver_ok, output) ==
    IF io = "open_fails" THEN Err("IOReadError")
    ELSE IF io = "read_fails" THEN Err("IOReadError")
    ELSE IF ~solver_ok THEN Err("SolutionExecutionError")
    ELSE Ok(output)

solve(io, solver_ok, output) == solve_from_input_path(io, solver_ok, output)

run_example_test_errOnMismatch(exp_io, expected, in_io, solver_ok, output) ==
    LET example_output == get_file_output(exp_io, expected)
        solved == solve_from_input_path(in_io, solver_ok, output)
    IN  IF ~example_output.ok THEN Err(example_output.err)
        ELSE IF ~solved.ok THEN Err(solved.err)
        ELSE IF ~solutions_match(example_output.val, solved.val)
        THEN Err("InvalidExampleOutput")
        ELSE Ok([passed |-> TRUE,
                 output |-> solved.val,
                 expected_output |-> example_output.val,
                 set |-> TRUE])

run_example_test(exp_io, expected, in_io, solver_ok, output) ==
    LET example_output == get_file_output(exp_io, expected)
        solved == solve_from_input_path(in_io, solver_ok, output)
    IN  IF ~example_output.ok THEN Err(example_output.err)
        ELSE IF ~solved.ok THEN Err(solved.err)
        ELSE Ok([passed |-> solutions_match(example_output.val, solved.val),
                 output |-> solved.val,
                 expected_output |-> example_output.val,
                 set |-> TRUE])

\* answer: what Confirm::interact gives: yes, no or fault (an io error)
ask_if_solved_marksNext(m, t, p, answer, create_ok) ==
    IF answer = "fault" THEN [ok |-> FALSE, err |-> "UserInterractionError", val |-> FALSE, markers |-> m]
    ELSE IF answer = "yes"
    THEN LET w == mark_phase_as_solved(m, t, p + 1, create_ok)
         IN  IF w.ok
             THEN [ok |-> TRUE, err |-> "none", val |-> TRUE, markers |-> w.markers]
             ELSE [ok |-> FALSE, err |-> w.err, val |-> FALSE, markers |-> w.markers]
    ELSE [ok |-> TRUE, err |-> "none", val |-> FALSE, markers |-> m]

ask_if_solved_marksOnNo(m, t, p, answer, create_ok) ==
    IF answer = "fault" THEN [ok |-> FALSE, err |-> "UserInterractionError", val |-> FALSE, markers |-> m]
    ELSE LET w == mark_phase_as_solved(m, t, p, create_ok)
         IN  IF w.ok
             THEN [ok |-> TRUE, err |-> "none", val |-> answer = "yes", markers |-> w.markers]
             ELSE [ok |-> FALSE, err |-> w.err, val |-> FALSE, markers |-> w.markers]

ask_if_solved(m, t, p, answer, create_ok) ==
    IF answer = "fault" THEN [ok |-> FALSE, err |-> "UserInterractionError", val |-> FALSE, markers |-> m]
    ELSE IF answer = "yes"
    THEN LET w == mark_phase_as_solved(m, t, p, create_ok)
         IN  IF w.ok
             THEN [ok |-> TRUE, err |-> "none", val |-> TRUE, markers |-> w.markers]
             ELSE [ok |-> FALSE, err |-> w.err, val |-> FALSE, markers |-> w.markers]
    ELSE [ok |-> TRUE, err |-> "none", val |-> FALSE, markers |-> m]

(***************************************************************************)
(* Orchestrator: solve_example_phase, solve_task_phase, check_solved_tasks *)
(***************************************************************************)
\* test: the Result of run_example_test
solve_example_phase_neverStops(test, p) ==
    IF ~test.ok THEN Err(test.err) ELSE Ok(TRUE)

solve_example_phase_stopsAlways(test, p) ==
    IF ~test.ok THEN Err(test.err)
    ELSE IF ~test.val.passed THEN Ok(FALSE)
    ELSE Ok(TRUE)

solve_example_phase_stopsAtPhase2(test, p) ==
    IF ~test.ok THEN Err(test.err)
    ELSE IF p = 2 /\ ~test.val.passed THEN Ok(FALSE)
    ELSE Ok(TRUE)

solve_example_phase(test, p) ==
    IF ~test.ok THEN Err(test.err)
    ELSE IF p = 1 /\ ~test.val.passed THEN Ok(FALSE)
    ELSE Ok(TRUE)

\* check_solved_tasks, lines 131-136: the loop over the fixtures of the phase
\* goes on while fixtures remain, then solve_task_phase is called
after_example_skipsRest(rest) == "solve"

after_example(rest) == IF rest = <<>> THEN "solve" ELSE "example"

\* solve_task_phase, line 36: ask only when the phase is not solved
needs_prompt_always(solved) == TRUE

needs_prompt(solved) == ~solved

\* for example in task.example_paths()? : the error of the listing leaves the run
listing_swallowed(listing) == Ok(listing.pairs)

listing(listed) == IF listed.ok THEN Ok(listed.pairs) ELSE Err(listed.err)

\* The loops of check_solved_tasks over tasks and 1..=phases_per_task
first_iteration(n, pp) ==
    IF n >= 1 /\ pp >= 1
    THEN [done |-> FALSE, task |-> 1, phase |-> 1]
    ELSE [done |-> TRUE, task |-> 0, phase |-> 0]

next_iteration_taskFirst(t, p, n, pp) ==
    IF t < n THEN [done |-> FALSE, task |-> t + 1, phase |-> p]
    ELSE IF p < pp THEN [done |-> FALSE, task |-> 1, phase |-> p + 1]
    ELSE [done |-> TRUE, task |-> t, phase |-> p]

next_iteration_staysPut(t, p, n, pp) ==
    IF p < pp THEN [done |-> FALSE, task |-> t, phase |-> p]
    ELSE IF t < n THEN [done |-> FALSE, task |-> t + 1, phase |-> 1]
    ELSE [done |-> TRUE, task |-> t, phase |-> p]

next_iteration(t, p, n, pp) ==
    IF p < pp THEN [done |-> FALSE, task |-> t, phase |-> p + 1]
    ELSE IF t < n THEN [done |-> FALSE, task |-> t + 1, phase |-> 1]
    ELSE [done |-> TRUE, task |-> t, phase |-> p]

\* The directories and the file contents the runs are given
DirOf(files) == [n \in FileNames |-> IF n \in files THEN "file" ELSE "absent"]

TaskDirs ==
    { DirOf({N_in, N_example_b_in}),
      DirOf({N_in, N_example_a_in, N_example_a_out, N_example_b_in}),
      DirOf({N_in, N_example_a_in, N_example_a_out, N_example_b_in, N_example_b_out}) }

L_7 == <<"7">>
L_7_padded == <<" ", "7">>
L_12 == <<"1", "2">>

SampleSolutions ==
    { <<L_7>>, <<L_7_padded>>, <<L_7, L_12>>, <<L_7, L_12, L_7>> }

\* A step of the run, with what the environment gave it
Step(kind, env) ==
    [kind |-> kind, task |-> task, phase |-> phase, env |-> env,
     marked |-> <<task, phase>> \in markers]

\* return from check_solved_tasks
Return(r) ==
    /\ pc' = "idle"
    /\ result' = r
    /\ UNCHANGED <<task, phase>>

\* go on with the iteration it, or return Ok(true) after the last one
Goto(it) ==
    IF it.done
    THEN Return("OkTrue")
    ELSE /\ pc' = "discover"
         /\ task' = it.task
         /\ phase' = it.phase
         /\ UNCHANGED result

Init ==
    /\ MatchIdle
    /\ PathsIdle
    /\ CallsIdle
    /\ num_tasks \in 0..MaxTasks
    /\ phases_per_task \in 0..MaxPhases
    /\ markers \in SUBSET ((1..num_tasks) \X (1..phases_per_task))
    /\ pc = "idle"
    /\ task = 0
    /\ phase = 0
    /\ examples = <<>>
    /\ example_result = NoTestResult
    /\ result = "none"
    /\ last = NoStep
    /\ discovered = {}
    /\ fixtures = NoFixtures
    /\ solved_real = {}
    /\ asked = {}
    /\ written = {}

\* check_solved_tasks is called (lib.rs 125-130)
CheckSolvedTasks ==
    /\ pc = "idle"
    /\ last' = [kind |-> "call", task |-> 0, phase |-> 0, env |-> "none", marked |-> FALSE]
    /\ discovered' = {}
    /\ fixtures' = NoFixtures
    /\ solved_real' = {}
    /\ asked' = {}
    /\ written' = {}
    /\ examples' = <<>>
    /\ example_result' = NoTestResult
    /\ LET it == first_iteration(num_tasks, phases_per_task)
       IN  IF it.done
           THEN /\ pc' = "idle"
                /\ result' = "OkTrue"
                /\ task' = 0
                /\ phase' = 0
           ELSE /\ pc' = "discover"
                /\ result' = "none"
                /\ task' = it.task
                /\ phase' = it.phase
    /\ UNCHANGED <<num_tasks, phases_per_task, markers>>
    /\ UNCHANGED match_vars
    /\ UNCHANGED paths_vars
    /\ UNCHANGED call_vars

\* for example in task.example_paths()? (lib.rs 131)
Discover ==
    /\ pc = "discover"
    /\ \E readable \in BOOLEAN, d \in TaskDirs :
         \E listed \in example_paths([readable |-> readable, entries |-> d]) :
            LET r == listing(listed)
            IN  /\ last' = Step("discover", IF readable THEN "ok" ELSE "unlistable")
                /\ discovered' = discovered \cup {<<task, phase>>}
                /\ fixtures' = [listed |-> Len(listed.pairs), run |-> 0, failed |-> FALSE]
                /\ IF ~r.ok
                   THEN /\ Return(r.err)
                        /\ examples' = <<>>
                   ELSE /\ examples' = r.val
                        /\ pc' = IF r.val = <<>> THEN "solve" ELSE "example"
                        /\ UNCHANGED <<task, phase, result>>
    /\ example_result' = NoTestResult
    /\ UNCHANGED <<num_tasks, phases_per_task, markers, solved_real, asked, written>>
    /\ UNCHANGED match_vars
    /\ UNCHANGED paths_vars
    /\ UNCHANGED call_vars

\* For the history of the run, independently of solutions_match: whether a
\* fixture's expected output and the solver's output agree, that is, have the
\* same number of lines, each pair of lines equal up to surrounding whitespace
MatchExpectedFixture(expected, output) ==
    /\ Len(expected) = Len(output)
    /\ \A i \in 1..Len(expected) : trim(expected[i]) = trim(output[i])

\* What the environment may give one fixture run: the outcome of reading the
\* expected output, of reading the input, of the solver, and the contents of
\* the expected output and of the solver's output (which matter only when
\* nothing fails)
ExampleEnvs ==
    {[exp_io |-> e, in_io |-> "ok", solver_ok |-> TRUE, expected |-> <<L_7>>, output |-> <<L_7>>] :
        e \in {"open_fails", "read_fails"}}
    \cup {[exp_io |-> "ok", in_io |-> i, solver_ok |-> s, expected |-> <<L_7>>, output |-> <<L_7>>] :
        i \in {"open_fails", "read_fails"}, s \in BOOLEAN}
    \cup {[exp_io |-> "ok", in_io |-> "ok", solver_ok |-> FALSE, expected |-> <<L_7>>, output |-> <<L_7>>]}
    \cup {[exp_io |-> "ok", in_io |-> "ok", solver_ok |-> TRUE, expected |-> e, output |-> o] :
        e \in SampleSolutions, o \in SampleSolutions}

\* if !solve_example_phase(task, &example, phase)? { return Ok(false) } (lib.rs 132-134)
RunExample ==
    /\ pc = "example"
    /\ examples # <<>>
    /\ \E env \in ExampleEnvs :
         LET test == run_example_test(env.exp_io, env.expected, env.in_io, env.solver_ok, env.output)
             r == solve_example_phase(test, phase)
         IN  /\ last' = Step("example",
                              IF env.exp_io # "ok" THEN "expected_unreadable"
                              ELSE IF env.in_io # "ok" THEN "input_unreadable"
                              ELSE IF ~env.solver_ok THEN "solver_failed"
                              ELSE IF MatchExpectedFixture(env.expected, env.output) THEN "passed"
                              ELSE "failed")
             /\ example_result' = IF test.ok THEN test.val ELSE NoTestResult
             /\ fixtures' = IF env.exp_io = "ok" /\ env.in_io = "ok" /\ env.solver_ok
                             THEN [fixtures EXCEPT
                                      !.run = @ + 1,
                                      !.failed = @ \/ ~MatchExpectedFixture(env.expected, env.output)]
                             ELSE fixtures
             /\ IF ~r.ok
                THEN Return(r.err) /\ UNCHANGED examples
                ELSE IF ~r.val
                THEN Return("OkFalse") /\ UNCHANGED examples
                ELSE /\ examples' = Tail(examples)
                     /\ pc' = after_example(Tail(examples))
                     /\ UNCHANGED <<task, phase, result>>
    /\ UNCHANGED <<num_tasks, phases_per_task, markers, discovered, solved_real, asked, written>>
    /\ UNCHANGED match_vars
    /\ UNCHANGED paths_vars
    /\ UNCHANGED call_vars

\* let solution_output = task.solve(phase)? (lib.rs 25)
SolveReal ==
    /\ pc = "solve"
    /\ \E io \in IoOutcomes, solver_ok \in BOOLEAN :
         LET r == solve(io, solver_ok, <<L_7, L_12>>)
         IN  /\ last' = Step("solve",
                              IF io # "ok" THEN "input_unreadable"
                              ELSE IF ~solver_ok THEN "solver_failed"
                              ELSE "ok")
             /\ IF r.ok
                THEN /\ pc' = "check"
                     /\ solved_real' = solved_real \cup {<<task, phase>>}
                     /\ UNCHANGED <<task, phase, result>>
                ELSE /\ Return(r.err)
                     /\ UNCHANGED solved_real
    /\ example_result' = NoTestResult
    /\ UNCHANGED <<num_tasks, phases_per_task, markers, examples, discovered, fixtures, asked, written>>
    /\ UNCHANGED match_vars
    /\ UNCHANGED paths_vars
    /\ UNCHANGED call_vars

\* let mut solved = task.phase_is_solved(phase); if !solved {...} (lib.rs 34-36, 50-60)
CheckSolved ==
    /\ pc = "check"
    /\ LET solved == phase_is_solved(markers, task, phase)
       IN  /\ last' = Step("check", "none")
           /\ IF needs_prompt(solved)
              THEN /\ pc' = "ask"
                   /\ UNCHANGED <<task, phase, result>>
              ELSE Goto(next_iteration(task, phase, num_tasks, phases_per_task))
    /\ UNCHANGED <<num_tasks, phases_per_task, markers, examples, example_result,
                   discovered, fixtures, solved_real, asked, written>>
    /\ UNCHANGED match_vars
    /\ UNCHANGED paths_vars
    /\ UNCHANGED call_vars

\* What the oracle and the marker write may give
AskEnvs ==
    {[answer |-> a, create_ok |-> TRUE] : a \in {"yes", "no", "fault"}}
    \cup {[answer |-> "yes", create_ok |-> FALSE]}

\* solved = task.ask_if_solved(phase)? and the return of solve_task_phase
\* (lib.rs 37-61, 137-139; task.rs 191-203)
AskIfSolved ==
    /\ pc = "ask"
    /\ \E env \in AskEnvs :
         LET r == ask_if_solved(markers, task, phase, env.answer, env.create_ok)
         IN  /\ last' = Step("ask",
                              IF env.answer = "yes" /\ ~env.create_ok
                              THEN "yes_write_fails"
                              ELSE env.answer)
             /\ asked' = asked \cup {<<task, phase>>}
             /\ markers' = r.markers
             /\ written' = written \cup (r.markers \ markers)
             /\ IF ~r.ok THEN Return(r.err)
                ELSE IF r.val
                THEN Goto(next_iteration(task, phase, num_tasks, phases_per_task))
                ELSE Return("OkFalse")
    /\ UNCHANGED <<num_tasks, phases_per_task, examples, example_result,
                   discovered, fixtures, solved_real>>
    /\ UNCHANGED match_vars
    /\ UNCHANGED paths_vars
    /\ UNCHANGED call_vars

Next ==
    \/ CheckSolvedTasks
    \/ Discover
    \/ RunExample
    \/ SolveReal
    \/ CheckSolved
    \/ AskIfSolved

Spec == Init /\ [][Next]_vars

\* The run is sequential code without suspension: listing a directory, running
\* a fixture, solving the real input (the solver returns) and checking the
\* marker each complete once reached. The oracle prompt completes only when
\* it is answered, which is not assumed here.
\* The runs start from a marker store with at most one marker present or at
\* most one missing; the other stores arise from the markers the runs write.
InitFair ==
    /\ Init
    /\ \/ Cardinality(markers) <= 1
       \/ Cardinality(((1..num_tasks) \X (1..phases_per_task)) \ markers) <= 1

SpecFair ==
    /\ InitFair
    /\ [][Next]_vars
    /\ WF_vars(Discover)
    /\ WF_vars(RunExample)
    /\ WF_vars(SolveReal)
    /\ WF_vars(CheckSolved)

(***************************************************************************)
(* Line source: BufReader::lines over the text of a file                   *)
(***************************************************************************)
\* A byte sequence that is not UTF-8: the line holding it cannot be read
BAD == "\\xFF"

\* Index of the first "\n" of text, 0 when it has none
first_newline(text) ==
    IF \E i \in 1..Len(text) : text[i] = "\n"
    THEN CHOOSE i \in 1..Len(text) : text[i] = "\n" /\ \A j \in 1..(i - 1) : text[j] # "\n"
    ELSE 0

\* read_line: the text cut after each "\n"; a last piece may lack it
RECURSIVE read_chunks(_)
read_chunks(text) ==
    IF text = <<>> THEN <<>>
    ELSE LET i == first_newline(text)
         IN  IF i = 0 THEN <<text>>
             ELSE <<SubSeq(text, 1, i)>> \o read_chunks(SubSeq(text, i + 1, Len(text)))

\* Lines::next on one piece: the final "\n", or "\r\n", is dropped
strip_newline(chunk) ==
    IF chunk # <<>> /\ chunk[Len(chunk)] = "\n"
    THEN LET s == SubSeq(chunk, 1, Len(chunk) - 1)
         IN  IF s # <<>> /\ s[Len(s)] = "\r" THEN SubSeq(s, 1, Len(s) - 1) ELSE s
    ELSE chunk

\* The items of BufReader::new(file).lines(): Ok(line) or Err for each line
line_results(text) ==
    LET chunks == read_chunks(text)
    IN  [i \in 1..Len(chunks) |->
            IF \E k \in 1..Len(chunks[i]) : chunks[i][k] = BAD
            THEN [ok |-> FALSE, line |-> <<>>]
            ELSE [ok |-> TRUE, line |-> strip_newline(chunks[i])]]

\* Index of the first line that cannot be read, 0 when all can
first_error(items) ==
    IF \E i \in 1..Len(items) : ~items[i].ok
    THEN CHOOSE i \in 1..Len(items) : ~items[i].ok /\ \A j \in 1..(i - 1) : items[j].ok
    ELSE 0

\* The lines before the first one that cannot be read
good_prefix(items) ==
    LET e == first_error(items)
        n == IF e = 0 THEN Len(items) ELSE e - 1
    IN  [i \in 1..n |-> items[i].line]

(***************************************************************************)
(* Solvers: implementations of AocTask::solution                           *)
(***************************************************************************)
Digits == <<"0", "1", "2", "3", "4", "5", "6", "7", "8", "9">>

IsDigit(c) == \E d \in 1..10 : Digits[d] = c

DigitValue(c) == (CHOOSE d \in 1..10 : Digits[d] = c) - 1

RECURSIVE digits_value(_)
digits_value(ds) ==
    IF ds = <<>> THEN 0
    ELSE 10 * digits_value(SubSeq(ds, 1, Len(ds) - 1)) + DigitValue(ds[Len(ds)])

RECURSIVE strip_zeros(_)
strip_zeros(ds) ==
    IF Len(ds) > 1 /\ Head(ds) = "0" THEN strip_zeros(Tail(ds)) ELSE ds

\* Whether the digits (without leading zeros) are at most those of limit
RECURSIVE digits_leq(_, _)
digits_leq(ds, limit) ==
    IF Len(ds) # Len(limit) THEN Len(ds) < Len(limit)
    ELSE IF ds = <<>> THEN TRUE
    ELSE IF Head(ds) # Head(limit) THEN DigitValue(Head(ds)) < DigitValue(Head(limit))
    ELSE digits_leq(Tail(ds), Tail(limit))

I32_MAX_DIGITS == <<"2", "1", "4", "7", "4", "8", "3", "6", "4", "7">>
I32_MIN_DIGITS == <<"2", "1", "4", "7", "4", "8", "3", "6", "4", "8">>

\* num.parse::<i32>().unwrap_or(0)
parse_i32_or_0(token) ==
    LET negative == token # <<>> /\ Head(token) = "-"
        signed == token # <<>> /\ Head(token) \in {"-", "+"}
        ds == IF signed THEN Tail(token) ELSE token
        z == strip_zeros(ds)
    IN  IF ds = <<>> \/ \E i \in 1..Len(ds) : ~IsDigit(ds[i]) THEN 0
        ELSE IF negative
        THEN IF digits_leq(z, I32_MIN_DIGITS)
             THEN IF z = I32_MIN_DIGITS THEN -2147483647 - 1 ELSE 0 - digits_value(z)
             ELSE 0
        ELSE IF digits_leq(z, I32_MAX_DIGITS) THEN digits_value(z) ELSE 0

\* str::split_whitespace
RECURSIVE split_whitespace(_)
split_whitespace(s) ==
    LET t == trim_start(s)
    IN  IF t = <<>> THEN <<>>
        ELSE LET n == IF \E i \in 1..Len(t) : IsWhitespace(t[i])
                      THEN (CHOOSE i \in 1..Len(t) :
                               IsWhitespace(t[i]) /\ \A j \in 1..(i - 1) : ~IsWhitespace(t[j])) - 1
                      ELSE Len(t)
             IN  <<SubSeq(t, 1, n)>> \o split_whitespace(SubSeq(t, n + 1, Len(t)))

RECURSIVE sum_i32(_)
sum_i32(values) ==
    IF values = <<>> THEN 0 ELSE Head(values) + sum_i32(Tail(values))

\* i32::to_string
RECURSIVE nat_to_string(_)
nat_to_string(n) ==
    IF n < 10 THEN <<Digits[n + 1]>>
    ELSE nat_to_string(n \div 10) \o <<Digits[(n % 10) + 1]>>

to_string(n) == IF n < 0 THEN <<"-">> \o nat_to_string(0 - n) ELSE nat_to_string(n)

\* SumTask::solution on one line (task.rs 224-228)
sum_line_firstOnly(line) ==
    LET tokens == split_whitespace(line)
    IN  to_string(IF tokens = <<>> THEN 0 ELSE parse_i32_or_0(tokens[1]))

sum_line(line) ==
    LET tokens == split_whitespace(line)
    IN  to_string(sum_i32([i \in 1..Len(tokens) |-> parse_i32_or_0(tokens[i])]))

\* The solvers: SumTask; one that reads every line and fails; one that fails
\* without reading; one that returns the first line it is given
Solvers == {"sum", "reads_and_fails", "fails_unread", "first_line"}

\* How many times the solver calls next() on an input of n readable lines
pulls(kind, n) ==
    CASE kind \in {"sum", "reads_and_fails"} -> n + 1
      [] kind = "fails_unread" -> 0
      [] OTHER -> 1

\* AocTask::solution on the lines it is given
solution(kind, lines) ==
    CASE kind = "sum" -> Ok([i \in 1..Len(lines) |-> sum_line(lines[i])])
      [] kind \in {"reads_and_fails", "fails_unread"} -> Err("solver")
      [] OTHER -> Ok(SubSeq(lines, 1, Min(1, Len(lines))))

\* What reading all of the file gives get_file_output
io_of_reading_all(file) ==
    IF ~file.opens THEN "open_fails"
    ELSE IF first_error(line_results(file.text)) # 0 THEN "read_fails"
    ELSE "ok"

\* What reading the file gives process_results while the solver consumes it:
\* a line that cannot be read counts only when the solver asks for it
io_of_solving(file, kind) ==
    LET items == line_results(file.text)
        e == first_error(items)
    IN  IF ~file.opens THEN "open_fails"
        ELSE IF e # 0 /\ pulls(kind, Len(good_prefix(items))) >= e THEN "read_fails"
        ELSE "ok"

\* The lines the solver is given before it returns
lines_given(file, kind) ==
    LET good == good_prefix(line_results(file.text))
    IN  SubSeq(good, 1, Min(pulls(kind, Len(good)), Len(good)))

\* solve_from_input_path on a file with a solver
solve_file(file, kind) ==
    LET sol == solution(kind, lines_given(file, kind))
    IN  solve_from_input_path(io_of_solving(file, kind), sol.ok, sol.val)

\* run_example_test on the two files of a fixture with a solver
test_files(expected, input, kind) ==
    LET sol == solution(kind, lines_given(input, kind))
    IN  run_example_test(io_of_reading_all(expected),
                         good_prefix(line_results(expected.text)),
                         io_of_solving(input, kind), sol.ok, sol.val)

\* The texts of the files
NL == <<"\n">>
CRLF == <<"\r", "\n">>
T_1_2_4 == <<"1", " ", "2", " ", "4">>
T_5_7 == <<"5", " ", "7">>
T_289197 == <<"2", "8", "9", "1", "9", "7">>
T_mixed == <<"x", " ", "-", "2", "\t", "+", "5", " ">>
T_7 == <<"7">>
T_8 == <<"8">>

InputTexts ==
    { <<>>,
      T_1_2_4,
      T_1_2_4 \o NL,
      T_1_2_4 \o NL \o T_5_7 \o NL \o T_289197 \o NL,
      T_1_2_4 \o CRLF \o T_5_7 \o CRLF \o T_289197,
      T_mixed \o NL \o NL \o T_5_7,
      T_1_2_4 \o NL \o <<BAD>> \o NL \o T_5_7 \o NL,
      <<BAD, "1">> \o NL \o T_5_7 }

ExpectedTexts ==
    { T_7 \o NL,
      <<" ">> \o T_7 \o <<" ">>,
      T_8 \o NL,
      T_7 \o NL \o <<"1", "2">> \o NL \o T_289197 \o NL,
      T_7 \o NL \o <<BAD>> \o NL }

(***************************************************************************)
(* solve_from_input_path and run_example_test called on files              *)
(***************************************************************************)
InitSolve ==
    /\ OrchIdle
    /\ MatchIdle
    /\ PathsIdle
    /\ store_writable = TRUE
    /\ input_file \in [opens : BOOLEAN, text : InputTexts]
    /\ example_input \in [opens : BOOLEAN, text : InputTexts]
    /\ expected_file \in [opens : BOOLEAN, text : ExpectedTexts]
    /\ solver \in Solvers
    /\ solve_result = <<>>
    /\ test_result = <<>>

\* task.solve(phase) / task.solve_from_input_path(&input_path, phase)
CallSolve ==
    /\ solve_result = <<>>
    /\ solve_result' = <<solve_file(input_file, solver)>>
    /\ UNCHANGED <<store_writable, input_file, example_input, expected_file, solver, test_result>>
    /\ UNCHANGED orch_vars
    /\ UNCHANGED match_vars
    /\ UNCHANGED paths_vars

\* task.run_example_test(&(input, expected), phase)
CallRunExampleTest ==
    /\ test_result = <<>>
    /\ test_result' = <<test_files(expected_file, example_input, solver)>>
    /\ UNCHANGED <<store_writable, input_file, example_input, expected_file, solver, solve_result>>
    /\ UNCHANGED orch_vars
    /\ UNCHANGED match_vars
    /\ UNCHANGED paths_vars

NextSolve == CallSolve \/ CallRunExampleTest

SpecSolve == InitSolve /\ [][NextSolve]_vars

(***************************************************************************)
(* The phase state store called on its own: mark_phase_as_solved and       *)
(* phase_is_solved of the tasks, in any order                              *)
(***************************************************************************)
\* Here `written` holds the <<task, phase>> a call of mark_phase_as_solved has
\* returned Ok for, `last` the last call and `result` what it returned.
InitMark ==
    /\ MatchIdle
    /\ PathsIdle
    /\ SolveIdle
    /\ store_writable \in BOOLEAN
    /\ num_tasks = MaxTasks
    /\ phases_per_task = MaxPhases
    /\ markers \in SUBSET ((1..num_tasks) \X (1..phases_per_task))
    /\ pc = "idle"
    /\ task = 0
    /\ phase = 0
    /\ examples = <<>>
    /\ example_result = NoTestResult
    /\ result = "none"
    /\ last = NoStep
    /\ discovered = {}
    /\ fixtures = NoFixtures
    /\ solved_real = {}
    /\ asked = {}
    /\ written = {}

\* task.mark_phase_as_solved(phase) (task.rs 107-115)
MarkPhaseAsSolved ==
    /\ \E t \in 1..num_tasks, p \in 1..phases_per_task :
         LET w == mark_phase_as_solved(markers, t, p, store_writable)
         IN  /\ last' = [kind |-> "mark", task |-> t, phase |-> p,
                         env |-> IF <<t, p>> \in written THEN "again" ELSE "first",
                         marked |-> <<t, p>> \in markers]
             /\ markers' = w.markers
             /\ result' = IF w.ok THEN "Ok" ELSE w.err
             /\ written' = IF w.ok THEN written \cup {<<t, p>>} ELSE written
    /\ UNCHANGED <<num_tasks, phases_per_task, pc, task, phase, examples,
                   example_result, discovered, fixtures, solved_real, asked>>
    /\ UNCHANGED match_vars
    /\ UNCHANGED paths_vars
    /\ UNCHANGED call_vars

\* task.phase_is_solved(phase) (task.rs 103-105)
PhaseIsSolved ==
    /\ \E t \in 1..num_tasks, p \in 1..phases_per_task :
         /\ last' = [kind |-> "is_solved", task |-> t, phase |-> p,
                     env |-> "none", marked |-> <<t, p>> \in markers]
         /\ result' = IF phase_is_solved(markers, t, p) THEN "true" ELSE "false"
    /\ UNCHANGED <<num_tasks, phases_per_task, markers, pc, task, phase, examples,
                   example_result, discovered, fixtures, solved_real, asked, written>>
    /\ UNCHANGED match_vars
    /\ UNCHANGED paths_vars
    /\ UNCHANGED call_vars

NextMark == MarkPhaseAsSolved \/ PhaseIsSolved

SpecMark == InitMark /\ [][NextMark]_vars

(***************************************************************************)
(* Claims about check_solved_tasks (checked under Spec)                    *)
(***************************************************************************)
\* The run has returned
Finished == pc = "idle" /\ result # "none"

AllPhases == (1..num_tasks) \X (1..phases_per_task)

\* <<task, phase>> a comes before b in the order of the run
Before(a, b) == a[1] < b[1] \/ (a[1] = b[1] /\ a[2] < b[2])

Here == <<task, phase>>

LastAt == <<last.task, last.phase>>

\* What the run did, with the <<task, phase>> it did it for
Touched == discovered \cup solved_real \cup asked \cup written

\* What the environment gives a step that the engine reports as an error
FaultEnvs ==
    {"unlistable", "expected_unreadable", "input_unreadable", "solver_failed",
     "fault", "yes_write_fails"}

FixtureFailedAtPhase1 ==
    last.kind = "example" /\ last.env = "failed" /\ last.phase = 1

\* C1 as stated: a finished run returns Ok(true) if and only if every phase of
\* every task has its marker at the end of the run.
C1_OkTrueIffAllMarkers ==
    Finished => (result = "OkTrue" <=> AllPhases \subseteq markers)

\* C1 as amended: a finished run returns Ok(true) only if every phase of every
\* task has its marker at the end of the run, each present beforehand or written
\* after the oracle was asked; and when every marker exists at the end, the run
\* returns Ok(true) unless its last step raised an error or was a failed phase-1
\* fixture comparison.
C1_OkTrueOnlyIfAllMarkers ==
    Finished =>
        /\ result = "OkTrue" =>
              /\ AllPhases \subseteq markers
              /\ written \subseteq asked
        /\ result = "OkTrue" <=>
              /\ AllPhases \subseteq markers
              /\ last.env \notin FaultEnvs
              /\ ~FixtureFailedAtPhase1

C1_Witness ==
    /\ Finished
    /\ result = "OkTrue"
    /\ num_tasks = 2
    /\ phases_per_task = 2
    /\ written # {}
    /\ AllPhases \ written # {}

\* C2: a phase that is already marked solved when the orchestrator reaches it is
\* never put to the oracle, and its real input is still solved before the
\* orchestrator moves on to the next phase or task or returns Ok(true).
C2_SolvedPhaseNotAskedButSolved ==
    /\ pc = "ask" => Here \notin markers
    /\ \A tp \in discovered :
          tp \in markers \ written =>
              /\ tp \notin asked
              /\ (Before(tp, Here) \/ result = "OkTrue") => tp \in solved_real

C2_Witness ==
    /\ pc = "discover"
    /\ Here = <<2, 1>>
    /\ <<1, 1>> \in markers \ written
    /\ <<1, 1>> \in solved_real
    /\ <<1, 2>> \in asked

\* The run goes from Here on to the phase after it, or returns Ok(true) after the
\* last phase of the last task
ProceedsToNextPhase ==
    IF phase < phases_per_task
    THEN pc' = "discover" /\ task' = task /\ phase' = phase + 1 /\ result' = "none"
    ELSE IF task < num_tasks
    THEN pc' = "discover" /\ task' = task + 1 /\ phase' = 1 /\ result' = "none"
    ELSE pc' = "idle" /\ result' = "OkTrue"

NothingAfterLast ==
    /\ Finished
    /\ \A x \in Touched : ~Before(LastAt, x)

C3_OnYes ==
    (pc = "ask" /\ last'.env \in {"yes", "yes_write_fails"}) =>
        /\ markers' = markers \cup {Here}
        /\ ProceedsToNextPhase

C3_OnNo ==
    (last.kind = "ask" /\ last.env = "no") =>
        /\ NothingAfterLast
        /\ result = "OkFalse"
        /\ LastAt \notin written
        /\ written \subseteq markers

\* C3 as stated: when the oracle is asked about an unsolved phase, on 'yes' the
\* marker of exactly that phase is created and the run proceeds to the next
\* phase; on 'no' the run returns false and nothing more is solved, listed, asked
\* or written.
C3_YesMarksAndProceeds == [][C3_OnYes]_vars /\ []C3_OnNo

C3_OnYesWritten ==
    (pc = "ask" /\ last'.env = "yes") =>
        /\ Here \notin markers
        /\ markers' = markers \cup {Here}
        /\ ProceedsToNextPhase

C3_OnYesWriteFails ==
    (pc = "ask" /\ last'.env = "yes_write_fails") =>
        /\ markers' = markers
        /\ pc' = "idle"
        /\ result' = "MarkSolvedError"

\* C3 as amended: on 'yes' the marker of exactly that phase is created and the
\* run proceeds to the next phase, unless creating the marker file fails: then no
\* marker is created and the run returns MarkSolvedError; on 'no' the run returns
\* false and nothing more is solved, listed, asked or written.
C3_YesMarksUnlessWriteFails ==
    /\ [][C3_OnYesWritten /\ C3_OnYesWriteFails]_vars
    /\ []C3_OnNo

C3_Witness ==
    /\ last.kind = "ask"
    /\ last.env = "yes"
    /\ pc = "discover"
    /\ Here = <<1, 2>>
    /\ written = {<<1, 1>>}
    /\ markers = {<<1, 1>>, <<2, 1>>}

\* C4: a fixture comparison that fails at phase 1 (as when the solver yields 3
\* lines and the expected output has 2) stops the whole run at once with result
\* false: no later fixture, no real-input solve, no oracle invocation and no
\* marker write for that task or a later one.
C4_Phase1FixtureFailureStopsRun ==
    /\ FixtureFailedAtPhase1 =>
          /\ NothingAfterLast
          /\ result = "OkFalse"
          /\ example_result.set /\ ~example_result.passed
          /\ \A x \in solved_real \cup asked \cup written : x[1] < last.task
    /\ (  /\ last.kind = "example"
          /\ last.phase = 1
          /\ last.env \in {"passed", "failed"}
          /\ Len(example_result.output) = 3
          /\ Len(example_result.expected_output) = 2 )
       => (last.env = "failed" /\ result = "OkFalse" /\ pc = "idle")

C4_Witness ==
    /\ FixtureFailedAtPhase1
    /\ last.task = 2
    /\ Len(example_result.output) = 3
    /\ Len(example_result.expected_output) = 2
    /\ Len(examples) = 2
    /\ written # {}

\* The AocError of each fault
ErrorFor(env) ==
    CASE env = "unlistable" -> "MissingExample"
      [] env \in {"expected_unreadable", "input_unreadable"} -> "IOReadError"
      [] env = "solver_failed" -> "SolutionExecutionError"
      [] env = "fault" -> "UserInterractionError"
      [] env = "yes_write_fails" -> "MarkSolvedError"
      [] OTHER -> "none"

\* C5: an error of fixture discovery, file reading, the solver, the marker write
\* or the oracle ends the run at that step with that typed error as its result:
\* no solver run, oracle invocation or marker write follows it.
C5_ErrorEndsRun ==
    last.env \in FaultEnvs =>
        /\ NothingAfterLast
        /\ result = ErrorFor(last.env)
        /\ LastAt \notin written
        /\ last.kind \in {"discover", "example", "solve"} => LastAt \notin solved_real \cup asked

C5_Witness ==
    /\ last.kind = "example"
    /\ last.env = "solver_failed"
    /\ result = "SolutionExecutionError"
    /\ LastAt = <<2, 2>>
    /\ Len(examples) = 1
    /\ asked # {}

\* C6: a phase that is solved stays solved: no step of the engine removes a
\* marker, so the set of markers only grows.
C6_MarkersOnlyGrow == [][markers \subseteq markers']_vars

C6_Witness ==
    /\ written = {<<2, 1>>}
    /\ markers = {<<1, 1>>, <<1, 2>>, <<2, 1>>}

\* The place of a step within its phase
Stage(at) ==
    CASE at = "discover" -> 1
      [] at = "example" -> 2
      [] at = "solve" -> 3
      [] at = "check" -> 4
      [] at = "ask" -> 5
      [] OTHER -> 0

C7_StepInOrder ==
    (pc # "idle" /\ pc' # "idle") =>
        \/ /\ task' = task
           /\ phase' = phase
           /\ Stage(pc') >= Stage(pc)
        \/ /\ pc' = "discover"
           /\ pc \in {"check", "ask"}
           /\ Here \in solved_real
           /\ \/ task' = task /\ phase' = phase + 1
              \/ task' = task + 1 /\ phase' = 1 /\ phase = phases_per_task

C7_DoneInOrder ==
    pc # "idle" =>
        /\ \A x \in AllPhases : Before(x, Here) => x \in discovered \cap solved_real \cap markers
        /\ \A x \in Touched : ~Before(Here, x)
        /\ Here \in solved_real => examples = <<>>
        /\ Here \in asked \cup written => Here \in solved_real
        /\ pc # "discover" => Here \in discovered

\* C7: tasks are processed one at a time in list order and, within a task, the
\* phases in ascending order 1, 2, ..., phases_per_task, each phase (fixtures,
\* real-input solve, solved check or prompt) finishing before the next starts; no
\* step of a later phase or task precedes a step of an earlier one.
C7_TasksAndPhasesInOrder ==
    /\ [][C7_StepInOrder]_vars
    /\ [](pc = "discover" /\ last.kind = "call" => Here = <<1, 1>>)
    /\ []C7_DoneInOrder

C7_Witness ==
    /\ pc = "ask"
    /\ Here = <<2, 2>>
    /\ discovered = AllPhases
    /\ written = {<<1, 2>>}

(***************************************************************************)
(* Claims about solutions_match (checked under SpecMatch)                  *)
(***************************************************************************)
\* t is s without its leading and trailing whitespace
IsTrimOf(t, s) ==
    \E i \in 1..(Len(s) + 1), j \in 0..Len(s) :
        /\ t = SubSeq(s, i, j)
        /\ \A k \in 1..(i - 1) : IsWhitespace(s[k])
        /\ \A k \in (j + 1)..Len(s) : IsWhitespace(s[k])
        /\ t = <<>> \/ (~IsWhitespace(t[1]) /\ ~IsWhitespace(t[Len(t)]))

EqualAfterTrim(x, y) ==
    \E i \in 1..(Len(x) + 1), j \in 0..Len(x) :
        IsTrimOf(SubSeq(x, i, j), x) /\ IsTrimOf(SubSeq(x, i, j), y)

MatchExpected(a, b) ==
    /\ Len(a) = Len(b)
    /\ \A i \in 1..Len(a) : EqualAfterTrim(a[i], b[i])

\* C8: solutions_match(A, B) is true iff A and B have the same length and every
\* A[i] equals B[i] after trimming leading and trailing whitespace from each;
\* different lengths never match, and two empty solutions match.
C8_MatchIffSameLengthAndTrimmedEqual ==
    matched # <<>> =>
        /\ matched[1] = MatchExpected(s1, s2)
        /\ (Len(s1) # Len(s2) => ~matched[1])
        /\ (s1 = <<>> /\ s2 = <<>> => matched[1])

C8_Witness ==
    /\ matched = <<TRUE>>
    /\ Len(s1) = 2
    /\ s1[1] # s2[1]
    /\ s1[2] # s2[2]

\* C9: solutions_match is symmetric: solutions_match(A, B) = solutions_match(B, A).
C9_MatchSymmetric ==
    (matched # <<>> /\ matched_swapped # <<>>) => matched[1] = matched_swapped[1]

C9_Witness ==
    /\ matched # <<>>
    /\ matched_swapped = <<FALSE>>
    /\ Len(s1) < Len(s2)
    /\ \A i \in 1..Len(s1) : trim(s1[i]) = trim(s2[i])

(***************************************************************************)
(* Claims about example_paths (checked under SpecPaths)                    *)
(***************************************************************************)
ExpectedPairs(entries) ==
    { io \in FileNames \X FileNames :
        /\ entries[io[1]] = "file"
        /\ entries[io[2]] = "file"
        /\ contains(io[1], S_example)
        /\ Len(io[1]) >= 3
        /\ SubSeq(io[1], Len(io[1]) - 2, Len(io[1])) = S_in
        /\ io[2] = SubSeq(io[1], 1, Len(io[1]) - 3) \o S_out }

Range(q) == {q[i] : i \in DOMAIN q}

\* C10: for a listable directory example_paths returns exactly the pairs
\* (input, output) of regular files where the input name contains "example" and
\* ends in "_in" and the output name is the input name with "_in" replaced by
\* "_out", each pair once; an input without its output yields no pair, and a
\* directory with no pairs gives an empty result, not an error.
C10_ExamplePathsExactlyThePairs ==
    \A c \in DOMAIN paths_result :
        dir.readable =>
            /\ paths_result[c].ok
            /\ Range(paths_result[c].pairs) = ExpectedPairs(dir.entries)
            /\ Len(paths_result[c].pairs) = Cardinality(ExpectedPairs(dir.entries))
            /\ (  /\ dir.entries[N_example_a_in] = "file"
                  /\ dir.entries[N_example_a_out] = "file"
                  /\ dir.entries[N_example_b_in] = "file"
                  /\ dir.entries[N_example_b_out] = "absent"
                  => paths_result[c].pairs = << <<N_example_a_in, N_example_a_out>> >> )

C10_Witness ==
    /\ paths_result # <<>>
    /\ dir.readable
    /\ dir.entries[N_example_b_in] = "file"
    /\ dir.entries[N_example_b_out] = "absent"
    /\ dir.entries[N_test_in] = "file"
    /\ dir.entries[N_test_out] = "file"
    /\ paths_result[1].pairs = << <<N_example_a_in, N_example_a_out>> >>

\* C15: two calls of example_paths on the same unchanged directory return the
\* same pairs in the same sequence.
C15_SameOrderOnEveryCall ==
    \A c1, c2 \in DOMAIN paths_result : paths_result[c1] = paths_result[c2]

(***************************************************************************)
(* Claims about the phase state store (checked under SpecMark)             *)
(***************************************************************************)
C11_AfterMark ==
    /\ (last.kind = "mark" /\ result = "Ok") => LastAt \in markers
    /\ (last.kind = "mark" /\ last.env = "again") => (result = "Ok" /\ LastAt \in markers)
    /\ (last.kind = "is_solved" /\ LastAt \in written) => result = "true"

C11_MarkStep ==
    last'.kind = "mark" =>
        \A x \in (1..num_tasks) \X (1..phases_per_task) :
            x # <<last'.task, last'.phase>> => (x \in markers' <=> x \in markers)

\* C11: marking a phase solved is idempotent: after mark_phase_as_solved(phase)
\* succeeds, phase_is_solved(phase) is true, and calling it again returns Ok and
\* leaves phase_is_solved(phase) true; the markers of the other phases and tasks
\* are unchanged by either call.
C11_MarkIdempotent == []C11_AfterMark /\ [][C11_MarkStep]_vars

C11_Witness ==
    /\ last.kind = "mark"
    /\ last.env = "again"
    /\ last.marked
    /\ result = "Ok"
    /\ markers = {<<1, 1>>, <<2, 2>>}
    /\ written = {<<1, 1>>}

(***************************************************************************)
(* Claims about solve_from_input_path and run_example_test on files        *)
(***************************************************************************)
\* The pieces of the `in` file that cannot be read as a line
UnreadableLines ==
    {i \in 1..Len(read_chunks(input_file.text)) :
        \E k \in 1..Len(read_chunks(input_file.text)[i]) :
            read_chunks(input_file.text)[i][k] = BAD}

\* The solver asks for a line of the `in` file that cannot be read
SolverMeetsUnreadableLine ==
    /\ input_file.opens
    /\ UnreadableLines # {}
    /\ \/ solver \in {"sum", "reads_and_fails"}
       \/ solver = "first_line" /\ 1 \in UnreadableLines

SolverFails == solver \in {"reads_and_fails", "fails_unread"}

\* C12: when the read of a line fails while the solver consumes the input,
\* solve_from_input_path returns IOReadError whether the solver returned a
\* solution or an error on the truncated input; SolutionExecutionError is
\* returned only when no read failed and the solver failed.
C12_ReadFailureIsIOReadError ==
    solve_result # <<>> =>
        /\ SolverMeetsUnreadableLine =>
               (~solve_result[1].ok /\ solve_result[1].err = "IOReadError")
        /\ solve_result[1].err = "SolutionExecutionError" =>
               (input_file.opens /\ ~SolverMeetsUnreadableLine /\ SolverFails)

C12_Witness ==
    /\ solve_result # <<>>
    /\ input_file.opens
    /\ 2 \in UnreadableLines
    /\ solver = "reads_and_fails"
    /\ solve_result[1].err = "IOReadError"

RECURSIVE JoinLines(_)
JoinLines(lines) ==
    IF lines = <<>> THEN <<>> ELSE Head(lines) \o <<"\n">> \o JoinLines(Tail(lines))

\* The text with each "\r\n" written as "\n"
RECURSIVE WithoutCR(_)
WithoutCR(text) ==
    IF text = <<>> THEN <<>>
    ELSE IF Len(text) > 1 /\ text[1] = "\r" /\ text[2] = "\n" THEN WithoutCR(Tail(text))
    ELSE <<Head(text)>> \o WithoutCR(Tail(text))

\* lines are the lines of text in file order with the newlines stripped
IsLinesOf(lines, text) ==
    /\ \A i \in 1..Len(lines) : \A k \in 1..Len(lines[i]) : lines[i][k] # "\n"
    /\ \/ JoinLines(lines) = WithoutCR(text)
       \/ JoinLines(lines) = WithoutCR(text) \o <<"\n">>

InLines == good_prefix(line_results(input_file.text))

Sample_in == <<T_1_2_4, T_5_7, T_289197>>
Sample_out == <<<<"7">>, <<"1", "2">>, <<"2", "8", "9", "1", "9", "7">>>>

\* C16: solve returns the solver's output for the lines of the `in` file,
\* in file order and without their newlines; the sum solver on the lines
\* "1 2 4", "5 7", "289197" gives "7", "12", "289197"; the fixture with input
\* "1 2 4" and expected output "7" passes.
C16_SolveReturnsSolverOutput ==
    /\ (solve_result # <<>> /\ input_file.opens /\ UnreadableLines = {}) =>
           /\ IsLinesOf(InLines, input_file.text)
           /\ solve_result[1].ok = ~SolverFails
           /\ solver = "first_line" =>
                  solve_result[1].val = SubSeq(InLines, 1, Min(1, Len(InLines)))
           /\ solver = "sum" =>
                  /\ solve_result[1].val = solution("sum", InLines).val
                  /\ Len(solve_result[1].val) = Len(InLines)
           /\ (solver = "sum" /\ InLines = Sample_in) =>
                  /\ solve_result[1].val = Sample_out
                  /\ solutions_match(solve_result[1].val, Sample_out)
    /\ ( /\ test_result # <<>>
         /\ solver = "sum"
         /\ example_input.opens
         /\ example_input.text \in {T_1_2_4, T_1_2_4 \o <<"\n">>}
         /\ expected_file.opens
         /\ expected_file.text = <<"7", "\n">> ) =>
           (test_result[1].ok /\ test_result[1].val.passed)

C16_Witness ==
    /\ solver = "sum"
    /\ input_file.opens
    /\ input_file.text = T_1_2_4 \o NL \o T_5_7 \o NL \o T_289197 \o NL
    /\ solve_result = <<Ok(Sample_out)>>
    /\ example_input.opens
    /\ example_input.text = T_1_2_4 \o NL
    /\ expected_file.opens
    /\ expected_file.text = <<"7", "\n">>
    /\ test_result # <<>>
    /\ test_result[1].ok
    /\ test_result[1].val.passed

(***************************************************************************)
(* Further claims about check_solved_tasks                                 *)
(***************************************************************************)
\* The last step compared a fixture: both files were read, the solver returned
Compared == last.kind = "example" /\ last.env \in {"passed", "failed"}

FixtureFailed == last.kind = "example" /\ last.env = "failed"

\* C13: a failed fixture comparison is a value, never an error: when both
\* fixture files are readable and the solver returns a solution,
\* run_example_test returns Ok with passed = solutions_match(expected, actual),
\* and on passed = false the run returns Ok(false) or goes on.
C13_FailedComparisonIsAValue ==
    /\ Compared =>
          /\ example_result.set
          /\ example_result.passed = (last.env = "passed")
          /\ example_result.passed =
                 solutions_match(example_result.expected_output, example_result.output)
    /\ FixtureFailed =>
          \/ result = "OkFalse" /\ pc = "idle"
          \/ result = "none" /\ pc \in {"example", "solve"}

C13_Witness ==
    /\ FixtureFailed
    /\ example_result.set
    /\ ~example_result.passed
    /\ example_result.expected_output = <<L_7, L_12>>
    /\ example_result.output = <<L_7>>
    /\ result = "OkFalse"

FixtureFailedAfterPhase1 == FixtureFailed /\ last.phase > 1

C14_AfterFailure ==
    FixtureFailedAfterPhase1 =>
        /\ result = "none"
        /\ Here = LastAt
        /\ pc = IF examples # <<>> THEN "example" ELSE "solve"

\* The failed fixture is dropped from the fixtures still to run, the others stay
C14_FailureStep ==
    (last'.kind = "example" /\ last'.env = "failed" /\ last'.phase > 1) =>
        examples' = Tail(examples)

\* After the failure the run does the next fixture or the real-input solve of
\* the same phase, and after a real-input solve that returned, the solved check
C14_NextStep ==
    /\ FixtureFailedAfterPhase1 =>
          /\ last'.kind = (IF examples # <<>> THEN "example" ELSE "solve")
          /\ <<last'.task, last'.phase>> = LastAt
    /\ (last.kind = "solve" /\ last.env = "ok" /\ pc = "check") =>
          /\ last'.kind = "check"
          /\ <<last'.task, last'.phase>> = LastAt

\* C14: a fixture comparison that fails at a phase greater than 1 does not end
\* the run: the run goes on with the remaining fixtures of the phase, then the
\* real-input solve and the solved check of the phase.
C14_LaterPhaseFailureGoesOn ==
    /\ []C14_AfterFailure
    /\ [][C14_FailureStep]_vars
    /\ [][C14_NextStep]_vars

C14_Witness ==
    /\ FixtureFailedAfterPhase1
    /\ last.task = 1
    /\ last.phase = 2
    /\ ~example_result.passed
    /\ examples = <<>>
    /\ pc = "solve"
    /\ result = "none"

\* C17 as stated: the run returns early, with result false, on a failing
\* fixture comparison at any phase: nothing follows the failure.
C17_AnyFixtureFailureStopsRun ==
    FixtureFailed => (Finished /\ result = "OkFalse")

\* C17 as amended: the run returns early, with result false, on a failing
\* fixture comparison at phase 1 and only at phase 1: after a failure at phase 1
\* no real-input solve, oracle invocation or marker write follows; after a
\* failure at a later phase the run is not over and goes on with that phase.
C17_OnlyPhase1FailureStopsRun ==
    /\ FixtureFailed => ((Finished /\ result = "OkFalse") <=> last.phase = 1)
    /\ (FixtureFailed /\ last.phase = 1) => NothingAfterLast
    /\ (FixtureFailed /\ last.phase # 1) =>
          /\ result = "none"
          /\ pc \in {"example", "solve"}
          /\ Here = LastAt

C17_Witness ==
    /\ FixtureFailed
    /\ last.task = 2
    /\ last.phase = 2
    /\ Len(examples) = 1
    /\ pc = "example"
    /\ result = "none"
    /\ <<2, 1>> \in written

RealSolveDone == last.kind = "solve"

\* C18 as stated: the real-input solve of a phase is run only after every
\* discovered fixture pair of the phase has been run and has passed.
C18_SolveOnlyAfterAllFixturesPassed ==
    RealSolveDone => (fixtures.run = fixtures.listed /\ ~fixtures.failed)

C18_AfterSolve ==
    /\ RealSolveDone =>
          /\ LastAt \in discovered
          /\ fixtures.run = fixtures.listed
          /\ fixtures.failed => last.phase > 1
    /\ pc \in {"check", "ask"} => Here \in solved_real
    /\ last.kind \in {"check", "ask"} => LastAt \in solved_real

\* Once the fixtures of a phase are done the real input is solved next, with
\* or without the marker of the phase; the solved check comes directly after a
\* solve that returned a solution, the oracle directly after the solved check
C18_Step ==
    /\ pc = "solve" =>
          (last'.kind = "solve" /\ last'.marked = (Here \in markers))
    /\ last'.kind = "check" => (last.kind = "solve" /\ last.env = "ok")
    /\ last'.kind = "ask" => last.kind = "check"

\* C18 as amended: the real-input solve of a phase is run only after every
\* discovered fixture pair of the phase has been run, and at phase 1 has
\* passed (or the task has no pairs); it is run whether or not the phase is
\* marked solved; the solved check and the oracle prompt of the phase come only
\* after that solve returned a solution.
C18_SolveAfterFixtures == []C18_AfterSolve /\ [][C18_Step]_vars

C18_Witness ==
    /\ RealSolveDone
    /\ last.env = "ok"
    /\ last.marked
    /\ last.task = 1
    /\ last.phase = 2
    /\ fixtures = [listed |-> 2, run |-> 2, failed |-> TRUE]
    /\ pc = "check"

C19_Markers ==
    /\ written \subseteq asked
    /\ written \subseteq markers
    /\ (last.kind = "ask" /\ last.env # "yes") =>
          (LastAt \notin written /\ LastAt \notin markers)

C19_Step ==
    /\ markers' # markers =>
          /\ pc = "ask"
          /\ last'.kind = "ask"
          /\ last'.env = "yes"
          /\ <<last'.task, last'.phase>> = Here
          /\ Here \notin markers
          /\ markers' = markers \cup {Here}
    /\ last'.kind = "ask" => (Here \notin asked /\ asked' = asked \cup {Here})
    /\ (written' # written /\ last'.kind # "call") =>
          (markers' # markers /\ written' = written \cup {Here})
    /\ UNCHANGED <<dir, input_file, example_input, expected_file>>

\* C19: a run changes no durable state but solved markers; a marker for
\* (task, phase) is created only directly after the oracle answered yes for
\* that (task, phase) in this run; the oracle is asked at most once per
\* (task, phase); no marker is written for a phase that was not prompted or
\* was answered no; the `in` file and the fixture files are not modified.
C19_OnlyMarkersChange == []C19_Markers /\ [][C19_Step]_vars

C19_Witness ==
    /\ last.kind = "ask"
    /\ last.env = "no"
    /\ LastAt = <<2, 1>>
    /\ asked = {<<1, 2>>, <<2, 1>>}
    /\ written = {<<1, 2>>}
    /\ markers = {<<1, 1>>, <<1, 2>>}

(***************************************************************************)
(* Termination (checked under SpecFair)                                    *)
(***************************************************************************)
Running == pc # "idle"

AocErrors ==
    {"MissingExample", "IOReadError", "SolutionExecutionError",
     "UserInterractionError", "MarkSolvedError"}

OneResult == result \in {"OkTrue", "OkFalse"} \cup AocErrors

\* The oracle answers every prompt
OracleAnswers == WF_vars(AskIfSolved)

\* C20: with finitely many tasks, phases and fixtures, when every solver call
\* returns and the oracle answers every prompt, a run ends with exactly one of
\* Ok(true), Ok(false) or an error; without the assumption on the oracle a run
\* ends or waits at an oracle prompt, the only step where it can stay forever.
C20_RunTerminates ==
    /\ [](Finished => OneResult)
    /\ Running ~> (Finished \/ pc = "ask")
    /\ OracleAnswers => (Running ~> Finished)

C20_Witness ==
    /\ Finished
    /\ result = "OkTrue"
    /\ num_tasks = MaxTasks
    /\ phases_per_task = MaxPhases
    /\ asked = {<<MaxTasks, MaxPhases>>}
    /\ written = asked

====
